---- MODULE Spec2Model ----
(***************************************************************************)
(* Model of src/mettool_web.py: the Mettool pipeline class (load, prune,   *)
(* select, filter, statistics) and the web-facing functions that drive the *)
(* process-wide instance mettool_instance.                                 *)
(*                                                                         *)
(* Cells are pairs <<kind, value>>: <<"num", v>> a number, <<"nan", 0>> a  *)
(* missing value (NaN / NaT), <<"str", 0>> a text cell that is neither a   *)
(* number nor a date, <<"date", d>> a timestamp with d = 100*month + day   *)
(* of the year 2023.  A table (DataFrame) is a record with its column      *)
(* labels in order and its rows in order; a row carries its index label.   *)
(***************************************************************************)
EXTENDS Integers, Sequences, FiniteSets, TLC

VARIABLES
    mettool_instance,   \* the global Mettool instance (line 148)
    call,               \* the call the host made last, with its arguments
    ret                 \* what that call returned or raised

vars == <<mettool_instance, call, ret>>

---------------------------------------------------------------------------
(* Bounds of the model.                                                    *)
MaxRows == 2
MaxPeriods == 2
MaxPruneRows == 10

---------------------------------------------------------------------------
(* Cells and tables.                                                       *)
NaN == <<"nan", 0>>
Txt == <<"str", 0>>
Num(v) == <<"num", v>>
Dt(d) == <<"date", d>>

IsNum(c) == c[1] = "num"
IsNaN(c) == c[1] = "nan"
IsDate(c) == c[1] = "date"

EmptyTable == [columns |-> <<>>, rows |-> <<>>]

Row(i, cells) == [idx |-> i, cells |-> cells]

RECURSIVE SeqSum(_)
SeqSum(s) == IF s = <<>> THEN 0 ELSE Head(s) + SeqSum(Tail(s))

RECURSIVE Filter(_, _)
Filter(s, keep) ==
    IF s = <<>> THEN <<>>
    ELSE IF keep[1] THEN <<Head(s)>> \o Filter(Tail(s), Tail(keep))
    ELSE Filter(Tail(s), Tail(keep))

InSeq(x, s) == \E i \in 1..Len(s) : s[i] = x

\* Position of the first column labelled c (0 when absent).
ColPos(t, c) ==
    IF InSeq(c, t.columns)
    THEN CHOOSE i \in 1..Len(t.columns) :
            t.columns[i] = c /\ \A j \in 1..(i - 1) : t.columns[j] # c
    ELSE 0

\* df[c]: the cells of column c in row order.
Column(t, c) == [i \in 1..Len(t.rows) |-> t.rows[i].cells[ColPos(t, c)]]

\* df[c] = values: column c replaced cell by cell.
SetColumn(t, c, values) ==
    [t EXCEPT !.rows = [i \in 1..Len(t.rows) |->
        [t.rows[i] EXCEPT !.cells[ColPos(t, c)] = values[i]]]]

CountNaN(s) == Cardinality({i \in 1..Len(s) : IsNaN(s[i])})

DeepCopy(t) == t

---------------------------------------------------------------------------
(* Mettool.__init__                                                        *)
Mettool(input_path) ==
    [input_data_path |-> input_path,
     date_column     |-> "Date",
     data            |-> EmptyTable,
     original_data   |-> EmptyTable,
     column_list     |-> <<>>]

---------------------------------------------------------------------------
(* Mettool._remove_junk_columns                                            *)

\* select_dtypes(include=np.number): a column read from the sheet is numeric
\* when it has rows and holds only numbers and blanks.
IsNumericColumn(cells) ==
    /\ Len(cells) > 0
    /\ \A i \in 1..Len(cells) : IsNum(cells[i]) \/ IsNaN(cells[i])

IsZero(c) == c = Num(0)

CountZero(s) == Cardinality({i \in 1..Len(s) : IsZero(s[i])})

\* (nan_frac + zero_frac) < 0.8 for a column of n rows with a missing and z
\* zero cells, in float64 as numpy computes it: fl(fl(a/n) + fl(z/n)) < fl(0.8).
\* With n = 0 both means are NaN and the comparison is False.  For n <= 14
\* the float64 result equals the exact comparison 5(a+z) < 4n except at
\* n = 10 with {a, z} = {1, 7}: fl(0.1) + fl(0.7) rounds to
\* 0.7999999999999999, which is below fl(0.8).
ScoreBelowThreshold(a, z, n) ==
    /\ n > 0
    /\ \/ 5 * (a + z) < 4 * n
       \/ (n = 10 /\ <<a, z>> \in {<<1, 7>>, <<7, 1>>})

KeepMask(t) ==
    [j \in 1..Len(t.columns) |->
        LET cells == [i \in 1..Len(t.rows) |-> t.rows[i].cells[j]]
            a == CountNaN(cells)
            z == IF IsNumericColumn(cells) THEN CountZero(cells) ELSE 0
        IN  \/ t.columns[j] = "Date"
            \/ ScoreBelowThreshold(a, z, Len(cells))]

remove_junk_columns(t) ==
    LET keep == KeepMask(t)
    IN  [columns |-> Filter(t.columns, keep),
         rows    |-> [i \in 1..Len(t.rows) |->
                        [t.rows[i] EXCEPT !.cells = Filter(t.rows[i].cells, keep)]]]

---------------------------------------------------------------------------
(* Mettool.read_data: fault names the library call that raises inside the  *)
(* try block ("none": none does).  The result is the instance afterwards   *)
(* and the boolean returned.                                               *)
Faults == {"none", "to_py", "read_excel", "deepcopy", "prune"}

read_data(self, sheet, fault) ==
    IF self.input_data_path = "none" THEN [self |-> self, ok |-> FALSE]
    ELSE IF fault = "read_excel" THEN [self |-> self, ok |-> FALSE]
    ELSE IF fault = "deepcopy"
        THEN [self |-> [self EXCEPT !.data = sheet], ok |-> FALSE]
    ELSE IF fault = "prune"
        THEN [self |-> [self EXCEPT !.data = sheet,
                                    !.original_data = DeepCopy(sheet)],
              ok |-> FALSE]
    ELSE [self |-> [self EXCEPT !.data = remove_junk_columns(sheet),
                                !.original_data = DeepCopy(sheet)],
          ok |-> TRUE]

---------------------------------------------------------------------------
(* Date literals.  A literal is "a/b/2023" (sep "/") or the ISO form       *)
(* "2023-a-b" (sep "-").  The ISO literals of the model have b > 12 or     *)
(* a = b, so their reading does not depend on the dayfirst flag.           *)
Lit(sep, a, b) == [sep |-> sep, a |-> a, b |-> b]

HasSlash(lit) == lit.sep = "/"

\* pd.to_datetime(lit, dayfirst=dayfirst): the flag is a preference; a first
\* field above 12 can only be the day, a second field above 12 only the day.
to_datetime(lit, dayfirst) ==
    IF lit.sep = "-" THEN 100 * lit.a + lit.b
    ELSE IF dayfirst
        THEN (IF lit.b <= 12 THEN 100 * lit.b + lit.a ELSE 100 * lit.a + lit.b)
        ELSE (IF lit.a <= 12 THEN 100 * lit.a + lit.b ELSE 100 * lit.b + lit.a)

\* Timestamp.strftime('%Y-%m-%d')
strftime(d) == <<2023, d \div 100, d % 100>>

\* pd.to_datetime(column, errors='coerce') on one cell: a timestamp stays, a
\* number is read as nanoseconds since 1970 (before every date of 2023), a
\* blank or unparseable text becomes NaT.
CoerceDate(c) ==
    IF IsDate(c) THEN c
    ELSE IF IsNum(c) THEN Dt(0)
    ELSE NaN

---------------------------------------------------------------------------
(* Mettool.select_data: the instance afterwards and the exception raised   *)
(* ("" when none).                                                         *)
\* Mutant: the end bound taken exclusive.
SelectMaskExclusive(df, date_column, start_dt, end_dt) ==
    [i \in 1..Len(df.rows) |->
        LET c == CoerceDate(df.rows[i].cells[ColPos(df, date_column)])
        IN  IsDate(c) /\ c[2] >= start_dt /\ c[2] < end_dt]

SelectMask(df, date_column, start_dt, end_dt) ==
    [i \in 1..Len(df.rows) |->
        LET c == CoerceDate(df.rows[i].cells[ColPos(df, date_column)])
        IN  IsDate(c) /\ c[2] >= start_dt /\ c[2] <= end_dt]

\* df.loc[mask, cols]: the rows of the mask, in order, projected on cols.
Loc(df, mask, cols) ==
    [columns |-> cols,
     rows    |-> Filter([i \in 1..Len(df.rows) |->
                    [df.rows[i] EXCEPT !.cells =
                        [j \in 1..Len(cols) |-> df.rows[i].cells[ColPos(df, cols[j])]]]],
                    mask)]

SelectBounds(start, end) ==
    LET dayfirst == HasSlash(start)
    IN  [start_dt |-> to_datetime(start, dayfirst),
         end_dt   |-> to_datetime(end, dayfirst)]

\* Mutant: df is the raw table itself, not a copy of it, so the coerced date
\* column is written into original_data.
select_data_inplace(self, start, end, cols) ==
    LET b  == SelectBounds(start, end)
        df0 == self.original_data
        cols2 == IF InSeq(self.date_column, cols) THEN cols
                 ELSE cols \o <<self.date_column>>
    IN  IF b.start_dt > b.end_dt THEN [self |-> self, err |-> "ValueError"]
        ELSE IF ~InSeq(self.date_column, df0.columns)
            THEN [self |-> self, err |-> "KeyError"]
        ELSE IF \E j \in 1..Len(cols2) : ~InSeq(cols2[j], df0.columns)
            THEN [self |-> [self EXCEPT !.original_data =
                    SetColumn(df0, self.date_column,
                        [i \in 1..Len(df0.rows) |->
                            CoerceDate(Column(df0, self.date_column)[i])])],
                  err |-> "KeyError"]
        ELSE
            LET df == SetColumn(df0, self.date_column,
                        [i \in 1..Len(df0.rows) |->
                            CoerceDate(Column(df0, self.date_column)[i])])
                mask == SelectMask(df, self.date_column, b.start_dt, b.end_dt)
            IN  [self |-> [self EXCEPT !.data = Loc(df, mask, cols2),
                                       !.column_list = cols2,
                                       !.original_data = df],
                 err |-> ""]

\* Mutant: reversed bounds are swapped instead of rejected.
select_data_swapped(self, start, end, cols) ==
    LET b0 == SelectBounds(start, end)
        b  == IF b0.start_dt > b0.end_dt
              THEN [start_dt |-> b0.end_dt, end_dt |-> b0.start_dt] ELSE b0
        df0 == self.original_data
        cols2 == IF InSeq(self.date_column, cols) THEN cols
                 ELSE cols \o <<self.date_column>>
    IN  IF ~InSeq(self.date_column, df0.columns)
            THEN [self |-> self, err |-> "KeyError"]
        ELSE IF \E j \in 1..Len(cols2) : ~InSeq(cols2[j], df0.columns)
            THEN [self |-> self, err |-> "KeyError"]
        ELSE
            LET df == SetColumn(df0, self.date_column,
                        [i \in 1..Len(df0.rows) |->
                            CoerceDate(Column(df0, self.date_column)[i])])
                mask == SelectMask(df, self.date_column, b.start_dt, b.end_dt)
            IN  [self |-> [self EXCEPT !.data = Loc(df, mask, cols2),
                                       !.column_list = cols2],
                 err |-> ""]

select_data(self, start, end, cols) ==
    LET b  == SelectBounds(start, end)
        df0 == self.original_data
        cols2 == IF InSeq(self.date_column, cols) THEN cols
                 ELSE cols \o <<self.date_column>>
    IN  IF b.start_dt > b.end_dt THEN [self |-> self, err |-> "ValueError"]
        ELSE IF ~InSeq(self.date_column, df0.columns)
            THEN [self |-> self, err |-> "KeyError"]
        ELSE IF \E j \in 1..Len(cols2) : ~InSeq(cols2[j], df0.columns)
            THEN [self |-> self, err |-> "KeyError"]
        ELSE
            LET df == SetColumn(df0, self.date_column,
                        [i \in 1..Len(df0.rows) |->
                            CoerceDate(Column(df0, self.date_column)[i])])
                mask == SelectMask(df, self.date_column, b.start_dt, b.end_dt)
            IN  [self |-> [self EXCEPT !.data = Loc(df, mask, cols2),
                                       !.column_list = cols2],
                 err |-> ""]

---------------------------------------------------------------------------
(* Mettool.filter_data                                                     *)

\* pd.to_numeric(errors='coerce') on one cell of a value column.
ToNumeric(c) == IF IsNum(c) THEN c ELSE NaN

\* The non-missing values of a column, in row order.
RECURSIVE DropNa(_)
DropNa(cells) ==
    IF cells = <<>> THEN <<>>
    ELSE IF IsNum(Head(cells)) THEN <<Head(cells)[2]>> \o DropNa(Tail(cells))
    ELSE DropNa(Tail(cells))

RECURSIVE InsertSorted(_, _)
InsertSorted(x, s) ==
    IF s = <<>> THEN <<x>>
    ELSE IF x < Head(s) THEN <<x>> \o s
    ELSE <<Head(s)>> \o InsertSorted(x, Tail(s))

RECURSIVE SortInts(_)
SortInts(s) == IF s = <<>> THEN <<>> ELSE InsertSorted(Head(s), SortInts(Tail(s)))

\* scipy.stats.zscore over the non-missing values xs (population standard
\* deviation): |z| > threshold for the value x.  With S the sum and n the
\* count, z^2 = n (n x - S)^2 / SUM_j (n x_j - S)^2; a zero deviation sum
\* makes z NaN and the comparison False.
ZScoreAbove(x, xs, threshold) ==
    LET n == Len(xs)
        S == SeqSum(xs)
        V == SeqSum([j \in 1..n |-> (n * xs[j] - S) * (n * xs[j] - S)])
    IN  V > 0 /\ n * (n * x - S) * (n * x - S) > threshold * threshold * V

\* 4 * Series.quantile(q4 / 4) with linear interpolation.
Quantile4(xs, q4) ==
    LET v == SortInts(xs)
        h == q4 * (Len(v) - 1)
        k == h \div 4
        r == h % 4
    IN  IF r = 0 THEN 4 * v[k + 1] ELSE (4 - r) * v[k + 1] + r * v[k + 2]

IqrOutside(x, xs, threshold) ==
    LET q1 == Quantile4(xs, 1)
        q3 == Quantile4(xs, 3)
        iqr == q3 - q1
    IN  4 * x < q1 - threshold * iqr \/ 4 * x > q3 + threshold * iqr

\* The body of the loop for one column.
CleanColumn(cells, replace_zero, remove_outliers, outlier_method, outlier_threshold) ==
    LET c1 == [i \in 1..Len(cells) |-> ToNumeric(cells[i])]
        c2 == [i \in 1..Len(c1) |->
                  IF replace_zero /\ IsZero(c1[i]) THEN NaN ELSE c1[i]]
        xs == DropNa(c2)
    IN  IF remove_outliers /\ xs # <<>>
        THEN [i \in 1..Len(c2) |->
                IF ~IsNum(c2[i]) THEN c2[i]
                ELSE IF outlier_method = "zscore"
                        /\ ZScoreAbove(c2[i][2], xs, outlier_threshold) THEN NaN
                ELSE IF outlier_method = "iqr"
                        /\ IqrOutside(c2[i][2], xs, outlier_threshold) THEN NaN
                ELSE c2[i]]
        ELSE c2

RECURSIVE FilterLoop(_, _, _, _, _, _)
FilterLoop(self, num, replace_zero, remove_outliers, outlier_method, outlier_threshold) ==
    IF num = <<>> THEN [self |-> self, err |-> ""]
    ELSE IF ~InSeq(Head(num), self.data.columns)
        THEN [self |-> self, err |-> "KeyError"]
    ELSE FilterLoop(
            [self EXCEPT !.data = SetColumn(self.data, Head(num),
                CleanColumn(Column(self.data, Head(num)), replace_zero,
                            remove_outliers, outlier_method, outlier_threshold))],
            Tail(num), replace_zero, remove_outliers, outlier_method,
            outlier_threshold)

filter_data(self, replace_zero, remove_outliers, outlier_method, outlier_threshold) ==
    LET keep == [j \in 1..Len(self.column_list) |->
                    self.column_list[j] # self.date_column]
    IN  FilterLoop(self, Filter(self.column_list, keep), replace_zero,
                   remove_outliers, outlier_method, outlier_threshold)

\* filter_data() as the web functions call it: every default.
filter_data_default(self) == filter_data(self, TRUE, FALSE, "zscore", 3).self

---------------------------------------------------------------------------
(* Mettool.export_filtered_data: the workbook written (its one sheet), or  *)
(* the empty bytes when the writer raises.                                 *)
export_filtered_data(self, sheet, writer_fails) ==
    IF writer_fails THEN [sheet |-> "", table |-> EmptyTable]
    ELSE [sheet |-> sheet, table |-> self.data]

(* Mettool.get_data                                                        *)
get_data(self) == self.data

---------------------------------------------------------------------------
(* Mettool.cusum: (x - mean).cumsum() with pandas' defaults.  A value is   *)
(* <<"rat", p, q>> for p/q, q the number of non-missing values of the      *)
(* column, or NaN.                                                         *)
Rat(p, q) == <<"rat", p, q>>

\* Series.cumsum (skipna) over deviations scaled by n: acc is the sum so
\* far; a missing value stays missing and the sum goes on after it.
RECURSIVE CumSum(_, _, _)
CumSum(devs, acc, n) ==
    IF devs = <<>> THEN <<>>
    ELSE IF IsNum(Head(devs))
        THEN <<Rat(acc + Head(devs)[2], n)>>
             \o CumSum(Tail(devs), acc + Head(devs)[2], n)
    ELSE <<NaN>> \o CumSum(Tail(devs), acc, n)

cusum(self, col) ==
    LET x == Column(self.data, col)
        xs == DropNa(x)
        n == Len(xs)
        S == SeqSum(xs)
        devs == [i \in 1..Len(x) |->
                    IF IsNum(x[i]) /\ n > 0 THEN Num(n * x[i][2] - S) ELSE NaN]
    IN  CumSum(devs, 0, n)

---------------------------------------------------------------------------
(* Mettool.control_limits.  With n >= 2 samples of sum S and               *)
(* Q = n SUM x^2 - S^2 (so the sample variance is Q / (n (n-1))), a limit  *)
(* is the symbolic value <<"lim", sign, S, n, Q, conf>> for                *)
(* S/n + sign * t(conf, n-1) * sqrt(Q / (n (n-1))) / sqrt(n).              *)
Limit(sign, S, n, Q, conf) == <<"lim", sign, S, n, Q, conf>>

control_limits(self, col, conf) ==
    LET s == DropNa(Column(self.data, col))
        n == Len(s)
        S == SeqSum(s)
        Q == n * SeqSum([j \in 1..n |-> s[j] * s[j]]) - S * S
    IN  IF n < 2 THEN <<NaN, NaN>>
        \* t.ppf(1.0) is inf, and inf * 0 is NaN
        ELSE IF conf = 100 /\ Q = 0 THEN <<NaN, NaN>>
        ELSE <<Limit(1, S, n, Q, conf), Limit(-1, S, n, Q, conf)>>

\* Series.mean(): NaN when no value is present.
Mean(cells) ==
    LET s == DropNa(cells)
    IN  IF s = <<>> THEN NaN ELSE Rat(SeqSum(s), Len(s))

---------------------------------------------------------------------------
(* Mettool.correlation: the Pearson matrix over the numeric columns.  An   *)
(* entry is <<"corr", n, c, vx, vy>> over the n rows where both columns    *)
(* are present, for c / sqrt(vx * vy) with c = n Sxy - Sx Sy and           *)
(* vx = n Sxx - Sx^2; it is NaN with fewer than 2 such rows or no variance.*)
\* select_dtypes(include=np.number) on the working table: select_data left
\* the date column as timestamps; a value column is numeric when it holds
\* only numbers and blanks.
IsNumericData(self, c) ==
    /\ c # self.date_column
    /\ \A i \in 1..Len(self.data.rows) :
            LET v == Column(self.data, c)[i] IN IsNum(v) \/ IsNaN(v)

Pearson(xc, yc) ==
    LET both == [i \in 1..Len(xc) |-> IsNum(xc[i]) /\ IsNum(yc[i])]
        x == DropNa(Filter(xc, both))
        y == DropNa(Filter(yc, both))
        n == Len(x)
        Sx == SeqSum(x)
        Sy == SeqSum(y)
        c == n * SeqSum([j \in 1..n |-> x[j] * y[j]]) - Sx * Sy
        vx == n * SeqSum([j \in 1..n |-> x[j] * x[j]]) - Sx * Sx
        vy == n * SeqSum([j \in 1..n |-> y[j] * y[j]]) - Sy * Sy
    IN  IF n < 2 \/ vx = 0 \/ vy = 0 THEN NaN ELSE <<"corr", n, c, vx, vy>>

correlation(self) ==
    LET t == self.data
        keep == [j \in 1..Len(t.columns) |-> IsNumericData(self, t.columns[j])]
        numeric_cols == Filter(t.columns, keep)
    IN  [columns |-> numeric_cols,
         values  |-> [a \in 1..Len(numeric_cols) |-> [b \in 1..Len(numeric_cols) |->
                        Pearson(Column(t, numeric_cols[a]), Column(t, numeric_cols[b]))]]]

\* DataFrame.sort_values(by=date_column): ascending, equal keys in row order.
RECURSIVE InsertRow(_, _, _)
InsertRow(r, s, pos) ==
    IF s = <<>> THEN <<r>>
    ELSE IF r.cells[pos][2] < Head(s).cells[pos][2] THEN <<r>> \o s
    ELSE <<Head(s)>> \o InsertRow(r, Tail(s), pos)

RECURSIVE SortRows(_, _)
SortRows(rows, pos) ==
    IF rows = <<>> THEN <<>>
    ELSE InsertRow(rows[Len(rows)], SortRows(SubSeq(rows, 1, Len(rows) - 1), pos), pos)

sort_values(t, by) == [t EXCEPT !.rows = SortRows(t.rows, ColPos(t, by))]

---------------------------------------------------------------------------
(* The web-facing functions, as functions of the global instance and the   *)
(* parameters: the instance afterwards, the exception raised ("" when      *)
(* none) and the value returned.                                           *)
NoValue == <<>>

get_columns(m) == get_data(m).columns

run_correlation(m, params) ==
    LET m1 == [m EXCEPT !.date_column = params.dateCol]
        sel == select_data(m1, params.start, params.end, params.cols)
    IN  IF sel.err # "" THEN [m |-> m1, err |-> sel.err, value |-> NoValue]
        ELSE
            LET m2 == filter_data_default(sel.self)
                corr_matrix == correlation(m2)
            IN  [m |-> m2, err |-> "",
                 value |-> [plot_data |-> [z |-> corr_matrix.values,
                                           x |-> corr_matrix.columns,
                                           y |-> corr_matrix.columns],
                            file_buffer |->
                                export_filtered_data(m2, "Correlation", FALSE)]]

run_cusum(m, params) ==
    LET m1 == [m EXCEPT !.date_column = params.dateCol]
        sel == select_data(m1, params.start, params.end, params.cols)
    IN  IF sel.err # "" THEN [m |-> m1, err |-> sel.err, value |-> NoValue]
        ELSE
            LET m2 == filter_data_default(sel.self)
                df == sort_values(get_data(m2), m2.date_column)
                dates == Column(df, m2.date_column)
            IN  [m |-> m2, err |-> "",
                 value |-> [plot_data |->
                                [dateCol |-> [i \in 1..Len(dates) |-> strftime(dates[i][2])],
                                 dateColName |-> m2.date_column,
                                 traces |-> [j \in 1..Len(params.cols) |->
                                    [name |-> <<"CUSUM", params.cols[j]>>,
                                     data |-> cusum(m2, params.cols[j])]]],
                            file_buffer |-> export_filtered_data(m2, "CUSUM", FALSE)]]

---------------------------------------------------------------------------
(* run_control_graph.                                                      *)
PaletteSize == 10

Trace(x, y, name, mode, color) ==
    [x |-> x, y |-> y, name |-> name, mode |-> mode, color |-> color]

EmptyTrace == Trace(<<>>, <<>>, <<>>, "lines", "")

Gray == "#888888"

\* Mutant: one pipeline instance kept across the periods, each period
\* selecting from what the period before left.
PeriodInstanceShared(m, dateCol, full_period_data) ==
    [Mettool(m.input_data_path) EXCEPT
        !.date_column = dateCol,
        !.original_data =
            IF full_period_data = <<>> THEN DeepCopy(m.original_data)
            ELSE full_period_data[Len(full_period_data)]]

\* Lines 247-249: the pipeline instance of one period.  full_period_data
\* holds the frames of the periods already processed.
PeriodInstance(m, dateCol, full_period_data) ==
    [Mettool(m.input_data_path) EXCEPT
        !.date_column = dateCol,
        !.original_data = DeepCopy(m.original_data)]

\* Mutant: a period without limits appends no limit traces.
PeriodTracesOmit(tmp, d, i, period, col, conf, showLim, showAvg) ==
    LET s == period.start
        e == period.end
        dates == Column(d, tmp.date_column)
        points == [x |-> [k \in 1..Len(dates) |-> strftime(dates[k][2])],
                   y |-> Column(d, col), name |-> <<"", s, e>>,
                   mode |-> "markers", color |-> <<"palette", i % 10>>]
        period_start_dt == strftime(to_datetime(s, TRUE))
        period_end_dt == strftime(to_datetime(e, TRUE))
        lim == control_limits(tmp, col, conf)
        line(y, tag) == [x |-> <<period_start_dt, period_end_dt>>, y |-> <<y, y>>,
                         name |-> <<tag, s, e>>, mode |-> "lines",
                         color |-> "#888888"]
        empty == [x |-> <<>>, y |-> <<>>, name |-> <<>>, mode |-> "lines",
                  color |-> ""]
        limits ==
            IF showLim /\ ~IsNaN(lim[1])
            THEN <<line(lim[1], "UCL"), line(lim[2], "LCL")>> ELSE <<>>
        avg == Mean(Column(d, col))
        average ==
            IF ~showAvg THEN <<>>
            ELSE IF ~IsNaN(avg) THEN <<line(avg, "Avg")>> ELSE <<empty>>
    IN  <<points>> \o limits \o average

\* Lines 257-309: the traces one period appends, from its sorted frame d.
PeriodTraces(tmp, d, i, period, col, conf, showLim, showAvg) ==
    LET s == period.start
        e == period.end
        dates == Column(d, tmp.date_column)
        points == Trace([k \in 1..Len(dates) |-> strftime(dates[k][2])],
                        Column(d, col), <<"", s, e>>, "markers",
                        <<"palette", i % PaletteSize>>)
        period_start_dt == strftime(to_datetime(s, TRUE))
        period_end_dt == strftime(to_datetime(e, TRUE))
        lim == control_limits(tmp, col, conf)
        limits ==
            IF ~showLim THEN <<>>
            ELSE IF ~IsNaN(lim[1])
                THEN <<Trace(<<period_start_dt, period_end_dt>>, <<lim[1], lim[1]>>,
                             <<"UCL", s, e>>, "lines", Gray),
                       Trace(<<period_start_dt, period_end_dt>>, <<lim[2], lim[2]>>,
                             <<"LCL", s, e>>, "lines", Gray)>>
            ELSE <<EmptyTrace, EmptyTrace>>
        avg == Mean(Column(d, col))
        average ==
            IF ~showAvg THEN <<>>
            ELSE IF ~IsNaN(avg)
                THEN <<Trace(<<period_start_dt, period_end_dt>>, <<avg, avg>>,
                             <<"Avg", s, e>>, "lines", Gray)>>
            ELSE <<EmptyTrace>>
    IN  <<points>> \o limits \o average

\* The loop of lines 243-309 from period i (0-based) on.
RECURSIVE ControlLoop(_, _, _, _, _)
ControlLoop(m, params, i, plot_traces, full_period_data) ==
    IF i >= Len(params.periods)
    THEN [err |-> "", plot_traces |-> plot_traces,
          full_period_data |-> full_period_data]
    ELSE
        LET period == params.periods[i + 1]
            tmp0 == PeriodInstance(m, params.dateCol, full_period_data)
            sel == select_data(tmp0, period.start, period.end,
                               <<params.col, tmp0.date_column>>)
        IN  IF sel.err # ""
            THEN [err |-> sel.err, plot_traces |-> plot_traces,
                  full_period_data |-> full_period_data]
            ELSE
                LET tmp == filter_data_default(sel.self)
                    d == sort_values(get_data(tmp), tmp.date_column)
                IN  ControlLoop(m, params, i + 1,
                        plot_traces \o PeriodTraces(tmp, d, i, period, params.col,
                            params.conf, params.showLim, params.showAvg),
                        Append(full_period_data, d))

\* pd.concat(frames): the rows of the frames in order, indices kept.
RECURSIVE ConcatRows(_)
ConcatRows(frames) ==
    IF frames = <<>> THEN <<>> ELSE Head(frames).rows \o ConcatRows(Tail(frames))

concat(frames) == [columns |-> frames[1].columns, rows |-> ConcatRows(frames)]

run_control_graph(m, params) ==
    LET loop == ControlLoop(m, params, 0, <<>>, <<>>)
    IN  IF loop.err # "" THEN [m |-> m, err |-> loop.err, value |-> NoValue]
        ELSE
            LET m2 == [m EXCEPT !.data =
                        IF loop.full_period_data # <<>>
                        THEN concat(loop.full_period_data) ELSE EmptyTable]
            IN  [m |-> m2, err |-> "",
                 value |-> [plot_traces |-> loop.plot_traces,
                            file_buffer |-> export_filtered_data(m2, "Control", FALSE)]]

\* load_data_from_buffer: buffer.to_py() raising leaves the global instance
\* as it was; otherwise a new instance replaces it before read_data runs.
load_data_from_buffer(m, sheet, fault) ==
    IF fault = "to_py" THEN [m |-> m, err |-> "Exception", value |-> NoValue]
    ELSE
        LET r == read_data(Mettool("buffer"), sheet, fault)
        IN  [m |-> r.self, err |-> IF r.ok THEN "" ELSE "RuntimeError",
             value |-> NoValue]

clear_data(m) == Mettool("none")

---------------------------------------------------------------------------
(* Inputs.                                                                 *)
DateCells == {Dt(102), Dt(201), Txt}
ValueCells == {Num(0), Num(1), Num(3), Txt}
RowKinds == {<<d, v>> : d \in DateCells, v \in ValueCells}

\* A sheet as read_excel returns it: a RangeIndex from 0.
SheetOf(columns, cellrows) ==
    [columns |-> columns,
     rows    |-> [i \in 1..Len(cellrows) |-> Row(i - 1, cellrows[i])]]

Sheets ==
    {SheetOf(<<"Date", "A">>, rs) :
        rs \in UNION {[1..n -> RowKinds] : n \in 0..MaxRows}}

\* Fewer kinds of rows, for the specifications whose requests are many.
FewRowKinds ==
    {<<Dt(102), Num(3)>>, <<Dt(102), Num(0)>>, <<Dt(201), Num(1)>>,
     <<Txt, Num(1)>>}

FewSheets ==
    {SheetOf(<<"Date", "A">>, rs) :
        rs \in UNION {[1..n -> FewRowKinds] : n \in 0..MaxRows}}

\* Sheets for pruning: column A holds a blanks, then z zeros, then ones; the
\* Date column is all blank or all dates; column B is text followed by zeros.
PruneSheet(n, a, z, dated) ==
    SheetOf(<<"A", "Date", "B">>,
        [i \in 1..n |->
            <<IF i <= a THEN NaN ELSE IF i <= a + z THEN Num(0) ELSE Num(1),
              IF dated THEN Dt(102) ELSE NaN,
              IF i = 1 THEN Txt ELSE Num(0)>>])

PruneShapes ==
    {s \in (0..MaxPruneRows) \X (0..MaxPruneRows) \X (0..MaxPruneRows) :
        s[2] + s[3] <= s[1]}

PruneSheets ==
    {PruneSheet(s[1], s[2], s[3], dated) : s \in PruneShapes, dated \in BOOLEAN}

\* The sheets a second load reads.
ReloadSheets ==
    {SheetOf(<<"Date", "A">>, <<>>),
     SheetOf(<<"Date", "A">>, <<<<Dt(102), Num(3)>>, <<Dt(201), Num(0)>>>>)}

Lits == {Lit("/", 1, 2), Lit("/", 2, 1), Lit("-", 1, 13), Lit("-", 2, 2)}

Jan2 == Lit("/", 2, 1)
Feb1 == Lit("/", 1, 2)

SelectParams ==
    {[start |-> s, end |-> e, cols |-> c] :
        s \in Lits, e \in Lits, c \in {<<"A">>, <<"Date", "A">>}}
    \cup {[start |-> Jan2, end |-> Feb1, cols |-> <<"X">>]}

RangeParams ==
    {[dateCol |-> "Date", start |-> s, end |-> e, cols |-> <<"A">>] :
        s \in Lits, e \in Lits}
    \cup {[dateCol |-> "When", start |-> Jan2, end |-> Feb1, cols |-> <<"A">>],
          [dateCol |-> "Date", start |-> Jan2, end |-> Feb1, cols |-> <<"X">>]}

Period(s, e) == [start |-> s, end |-> e]

PeriodChoices == {Period(Jan2, Jan2), Period(Jan2, Feb1), Period(Feb1, Jan2)}

PeriodLists == UNION {[1..n -> PeriodChoices] : n \in 0..MaxPeriods}

ControlParams ==
    {[dateCol |-> "Date", col |-> "A", conf |-> 95, periods |-> ps,
      showLim |-> l, showAvg |-> a] :
        ps \in PeriodLists, l \in BOOLEAN, a \in BOOLEAN}
    \cup {[dateCol |-> "Date", col |-> "A", conf |-> 100, periods |-> <<p>>,
           showLim |-> l, showAvg |-> a] :
            p \in PeriodChoices, l \in BOOLEAN, a \in BOOLEAN}
    \cup {[dateCol |-> d, col |-> c, conf |-> 95, periods |-> <<Period(Jan2, Feb1)>>,
           showLim |-> TRUE, showAvg |-> TRUE] :
            <<d, c>> \in {<<"When", "A">>, <<"Date", "X">>}}

\* The requests of the lifecycle specification: one of each kind.
FewSelectParams ==
    {[start |-> Jan2, end |-> Feb1, cols |-> <<"A">>],
     [start |-> Jan2, end |-> Jan2, cols |-> <<"Date", "A">>],
     [start |-> Feb1, end |-> Jan2, cols |-> <<"A">>]}

FewRangeParams ==
    {[dateCol |-> "Date", start |-> Jan2, end |-> Feb1, cols |-> <<"A">>],
     [dateCol |-> "Date", start |-> Feb1, end |-> Jan2, cols |-> <<"A">>],
     [dateCol |-> "When", start |-> Jan2, end |-> Feb1, cols |-> <<"A">>]}

FewControlParams ==
    {[dateCol |-> "Date", col |-> "A", conf |-> 95, periods |-> ps,
      showLim |-> TRUE, showAvg |-> TRUE] :
        ps \in UNION {[1..n -> {Period(Jan2, Jan2), Period(Jan2, Feb1)}] :
                        n \in 0..MaxPeriods}}

---------------------------------------------------------------------------
(* State machine.  The host calls one function at a time and takes its     *)
(* result (Return) before the next call.                                   *)
IdleCall == [op |-> "idle"]
IdleRet == [err |-> "", value |-> NoValue]

Init ==
    /\ mettool_instance = Mettool("none")
    /\ call = IdleCall
    /\ ret = IdleRet

Idle == call.op = "idle"

Finish(r) ==
    /\ mettool_instance' = r.m
    /\ ret' = [err |-> r.err, value |-> r.value]

LoadFrom(S) ==
    /\ Idle
    /\ \E fault \in Faults :
        \E sheet \in (IF fault = "to_py" THEN {EmptyTable} ELSE S) :
            /\ call' = [op |-> "load_data_from_buffer", sheet |-> sheet,
                        fault |-> fault]
            /\ Finish(load_data_from_buffer(mettool_instance, sheet, fault))

\* A load into the empty pipeline (at start or after clear_data), and a load
\* that replaces a pipeline already loaded.
Loaded == mettool_instance.input_data_path # "none"

LoadDataFromBuffer == ~Loaded /\ LoadFrom(Sheets)

LoadFewSheets == ~Loaded /\ LoadFrom(FewSheets)

ReloadDataFromBuffer == Loaded /\ LoadFrom(ReloadSheets)

LoadPruneSheet == ~Loaded /\ LoadFrom(PruneSheets)

ClearData ==
    /\ Idle
    /\ call' = [op |-> "clear_data"]
    /\ Finish([m |-> clear_data(mettool_instance), err |-> "", value |-> NoValue])

GetColumns ==
    /\ Idle
    /\ call' = [op |-> "get_columns"]
    /\ Finish([m |-> mettool_instance, err |-> "",
               value |-> get_columns(mettool_instance)])

SelectDataFrom(P) ==
    /\ Idle
    /\ \E p \in P :
        LET r == select_data(mettool_instance, p.start, p.end, p.cols)
        IN  /\ call' = [op |-> "select_data", params |-> p]
            /\ Finish([m |-> r.self, err |-> r.err, value |-> NoValue])

FilterData ==
    /\ Idle
    /\ \E replace_zero \in BOOLEAN, remove_outliers \in BOOLEAN,
          outlier_method \in {"zscore", "iqr"} :
        LET r == filter_data(mettool_instance, replace_zero, remove_outliers,
                             outlier_method, 1)
        IN  /\ call' = [op |-> "filter_data", replace_zero |-> replace_zero,
                        remove_outliers |-> remove_outliers,
                        outlier_method |-> outlier_method]
            /\ Finish([m |-> r.self, err |-> r.err, value |-> NoValue])

ExportFilteredData ==
    /\ Idle
    /\ \E writer_fails \in BOOLEAN :
        /\ call' = [op |-> "export_filtered_data", writer_fails |-> writer_fails]
        /\ Finish([m |-> mettool_instance, err |-> "",
                   value |-> export_filtered_data(mettool_instance, "Out", writer_fails)])

RunCorrelationFrom(P) ==
    /\ Idle
    /\ \E p \in P :
        /\ call' = [op |-> "run_correlation", params |-> p]
        /\ Finish(run_correlation(mettool_instance, p))

RunCusumFrom(P) ==
    /\ Idle
    /\ \E p \in P :
        /\ call' = [op |-> "run_cusum", params |-> p]
        /\ Finish(run_cusum(mettool_instance, p))

RunControlGraphFrom(P) ==
    /\ Idle
    /\ \E p \in P :
        /\ call' = [op |-> "run_control_graph", params |-> p]
        /\ Finish(run_control_graph(mettool_instance, p))

Return ==
    /\ ~Idle
    /\ call' = IdleCall
    /\ ret' = IdleRet
    /\ UNCHANGED mettool_instance

\* The lifecycle: every function and method, in any order.
SelectDataFew == SelectDataFrom(FewSelectParams)
RunCorrelationFew == RunCorrelationFrom(FewRangeParams)
RunCusumFew == RunCusumFrom(FewRangeParams)
RunControlGraphFew == RunControlGraphFrom(FewControlParams)

Next ==
    \/ LoadFewSheets
    \/ ReloadDataFromBuffer
    \/ ClearData
    \/ GetColumns
    \/ SelectDataFew
    \/ FilterData
    \/ ExportFilteredData
    \/ RunCorrelationFew
    \/ RunCusumFew
    \/ RunControlGraphFew
    \/ Return

Spec == Init /\ [][Next]_vars

\* Selections over every pair of date literals.
SelectData == SelectDataFrom(SelectParams)

NextSelect ==
    \/ LoadDataFromBuffer
    \/ ClearData
    \/ SelectData
    \/ RunCorrelationFew
    \/ Return

SpecSelect == Init /\ [][NextSelect]_vars

\* CUSUM requests over every pair of date literals.
RunCusum == RunCusumFrom(RangeParams)

NextCusum ==
    \/ LoadDataFromBuffer
    \/ RunCusum
    \/ Return

SpecCusum == Init /\ [][NextCusum]_vars

\* Control-graph requests over every list of periods.
RunControlGraph == RunControlGraphFrom(ControlParams)

NextControl ==
    \/ LoadFewSheets
    \/ RunControlGraph
    \/ Return

SpecControl == Init /\ [][NextControl]_vars

\* Loads of the pruning sheets.
NextPrune ==
    \/ LoadPruneSheet
    \/ GetColumns
    \/ ClearData
    \/ Return

SpecPrune == Init /\ [][NextPrune]_vars

---------------------------------------------------------------------------
(* Properties.                                                             *)
Ok(op) == call.op = op /\ ret.err = ""

RawRowOf(raw, idx) == CHOOSE i \in 1..Len(raw.rows) : raw.rows[i].idx = idx

IdxSet(t) == {t.rows[k].idx : k \in 1..Len(t.rows)}

\* The raw rows whose date is present and lies in [lo, hi].
RowsWithin(raw, date_column, lo, hi) ==
    {raw.rows[i].idx : i \in
        {i \in 1..Len(raw.rows) :
            LET c == raw.rows[i].cells[ColPos(raw, date_column)]
            IN  IsDate(c) /\ lo <= c[2] /\ c[2] <= hi}}

\* C1: a call other than a load or clear_data, failing or not, leaves
\* original_data cell for cell as it was, and a successful load leaves in it
\* the table that was read.
C1_RawTablePreserved ==
    [][/\ call'.op \notin {"load_data_from_buffer", "clear_data"}
            => mettool_instance'.original_data = mettool_instance.original_data
       /\ (call'.op = "load_data_from_buffer" /\ ret'.err = "")
            => mettool_instance'.original_data = call'.sheet]_vars

\* filter_data has turned a zero of the working table into a missing value
\* while the raw table still holds the zero.
C1_Witness ==
    /\ Ok("filter_data")
    /\ InSeq("A", mettool_instance.data.columns)
    /\ \E k \in 1..Len(mettool_instance.data.rows) :
        /\ IsNaN(Column(mettool_instance.data, "A")[k])
        /\ mettool_instance.data.rows[k].idx \in IdxSet(mettool_instance.original_data)
        /\ Column(mettool_instance.original_data, "A")
                [RawRowOf(mettool_instance.original_data,
                          mettool_instance.data.rows[k].idx)] = Num(0)

\* C2: in a successful run_control_graph the traces of every period (points,
\* limits, average; the colour apart) are those of the call with that period
\* alone.
TraceWidth(p) ==
    1 + (IF p.showLim THEN 2 ELSE 0) + (IF p.showAvg THEN 1 ELSE 0)

Content(tr) == [x |-> tr.x, y |-> tr.y, name |-> tr.name, mode |-> tr.mode]

C2_PeriodIsolation ==
    Ok("run_control_graph") =>
        LET p == call.params
            w == TraceWidth(p)
            tr == ret.value.plot_traces
        IN  \A k \in 1..Len(p.periods) :
                LET alone == run_control_graph(mettool_instance,
                                [p EXCEPT !.periods = <<p.periods[k]>>])
                IN  /\ alone.err = ""
                    /\ Len(tr) >= k * w
                    /\ \A t \in 1..w :
                        Content(tr[(k - 1) * w + t])
                            = Content(alone.value.plot_traces[t])

\* Two different periods, the first with a cleaned (missing) point, the
\* second with more points than the first.
C2_Witness ==
    /\ Ok("run_control_graph")
    /\ Len(call.params.periods) = 2
    /\ call.params.periods[1] # call.params.periods[2]
    /\ LET w == TraceWidth(call.params)
           tr == ret.value.plot_traces
       IN  /\ \E i \in 1..Len(tr[1].y) : IsNaN(tr[1].y[i])
           /\ Len(tr[w + 1].y) > Len(tr[1].y)

\* C3: after a load that read_data failed, original_data and data are empty.
C3_FailedLoadLeavesEmpty ==
    (call.op = "load_data_from_buffer" /\ ret.err = "RuntimeError") =>
        /\ mettool_instance.original_data = EmptyTable
        /\ mettool_instance.data = EmptyTable

\* C4: select_data with start after end, or without the date column in the
\* raw table, raises, and a select_data that raises leaves data and
\* column_list as they were.
C4_FailedSelectLeavesState ==
    [][call'.op = "select_data" =>
        LET b == SelectBounds(call'.params.start, call'.params.end)
        IN  /\ (\/ b.start_dt > b.end_dt
                \/ ~InSeq(mettool_instance.date_column,
                          mettool_instance.original_data.columns))
                    => ret'.err \in {"ValueError", "KeyError"}
            /\ ret'.err # "" =>
                /\ mettool_instance'.data = mettool_instance.data
                /\ mettool_instance'.column_list = mettool_instance.column_list]_vars

\* A selection with reversed bounds was rejected and an earlier selection
\* is still the working table.
C4_Witness ==
    /\ call.op = "select_data"
    /\ ret.err = "ValueError"
    /\ mettool_instance.data.rows # <<>>
    /\ mettool_instance.column_list # <<>>

RECURSIVE SumSet(_, _)
SumSet(I, f) ==
    IF I = {} THEN 0
    ELSE LET i == CHOOSE i \in I : TRUE IN f[i] + SumSet(I \ {i}, f)

Present(x) == {j \in 1..Len(x) : IsNum(x[j])}

\* The sum of (x[j] - mean) over the present j <= i, as a fraction over the
\* number of present values.
DeviationSum(x, i) ==
    LET n == Cardinality(Present(x))
        S == SumSet(Present(x), [j \in 1..Len(x) |-> x[j][2]])
    IN  Rat(SumSet({j \in Present(x) : j <= i},
                   [j \in 1..Len(x) |-> n * x[j][2] - S]), n)

CusumColumn(j) == Column(mettool_instance.data, call.params.cols[j])

\* C5: CUSUM[i] is the sum of the deviations of the values up to i, in the
\* row order of the working table, and is missing from the first missing
\* value on.
C5_MissingPropagates ==
    Ok("run_cusum") =>
        \A j \in 1..Len(call.params.cols) :
            LET x == CusumColumn(j)
                out == ret.value.plot_data.traces[j].data
            IN  /\ Len(out) = Len(x)
                /\ \A i \in 1..Len(x) :
                    out[i] = IF \E k \in 1..i : ~IsNum(x[k]) THEN NaN
                             ELSE DeviationSum(x, i)

\* C6: every period contributes 1 + 2*showLim + showAvg traces in the order
\* points, upper limit, lower limit, average, and a period with fewer than 2
\* present samples contributes its two limit traces as empty series.
C6_FixedTraceShape ==
    Ok("run_control_graph") =>
        LET p == call.params
            w == TraceWidth(p)
            tr == ret.value.plot_traces
        IN  /\ Len(tr) = Len(p.periods) * w
            /\ \A k \in 1..Len(p.periods) :
                LET base == (k - 1) * w
                    pts == tr[base + 1]
                IN  /\ pts.mode = "markers"
                    /\ pts.name = <<"", p.periods[k].start, p.periods[k].end>>
                    /\ p.showLim =>
                        /\ \/ tr[base + 2] = EmptyTrace /\ tr[base + 3] = EmptyTrace
                           \/ /\ tr[base + 2].name[1] = "UCL"
                              /\ tr[base + 3].name[1] = "LCL"
                        /\ Cardinality(Present(pts.y)) < 2 =>
                            tr[base + 2] = EmptyTrace /\ tr[base + 3] = EmptyTrace
                    /\ p.showAvg =>
                        \/ tr[base + w] = EmptyTrace
                        \/ tr[base + w].name[1] = "Avg"

\* Limits and average asked for; the first period has fewer than 2 samples
\* and empty limit traces, the second has its limits.
C6_Witness ==
    /\ Ok("run_control_graph")
    /\ call.params.showLim /\ call.params.showAvg
    /\ Len(call.params.periods) = 2
    /\ LET tr == ret.value.plot_traces
       IN  /\ Cardinality(Present(tr[1].y)) < 2
           /\ tr[2] = EmptyTrace
           /\ tr[6] # EmptyTrace
           /\ tr[6].name[1] = "UCL"

\* C7: after a successful select_data the working table holds exactly the raw
\* rows whose date is present and within the two bounds, both inclusive, each
\* once, in the raw order, with the raw cells.
C7_SelectExactRows ==
    Ok("select_data") =>
        LET b == SelectBounds(call.params.start, call.params.end)
            raw == mettool_instance.original_data
            d == mettool_instance.data
        IN  /\ IdxSet(d) = RowsWithin(raw, mettool_instance.date_column,
                                      b.start_dt, b.end_dt)
            /\ \A k \in 1..Len(d.rows), l \in 1..Len(d.rows) :
                k < l => RawRowOf(raw, d.rows[k].idx) < RawRowOf(raw, d.rows[l].idx)
            /\ \A k \in 1..Len(d.rows), j \in 1..Len(d.columns) :
                d.rows[k].cells[j] =
                    raw.rows[RawRowOf(raw, d.rows[k].idx)].cells[ColPos(raw, d.columns[j])]

\* A row dated exactly the end bound is selected and a row whose date does
\* not parse is left out.
C7_Witness ==
    /\ Ok("select_data")
    /\ LET b == SelectBounds(call.params.start, call.params.end)
           raw == mettool_instance.original_data
           d == mettool_instance.data
       IN  /\ \E k \in 1..Len(d.rows) :
                Column(d, mettool_instance.date_column)[k] = Dt(b.end_dt)
           /\ b.start_dt < b.end_dt
           /\ \E i \in 1..Len(raw.rows) :
                Column(raw, mettool_instance.date_column)[i] = Txt

\* mean(missing) + mean(zero) < 0.8 in exact arithmetic.
JunkScoreBelow(cells) ==
    LET a == CountNaN(cells)
        z == IF IsNumericColumn(cells) THEN CountZero(cells) ELSE 0
    IN  Len(cells) > 0 /\ 5 * (a + z) < 4 * Len(cells)

\* C8: after a load a column is in the pruned table exactly when it is the
\* date column or its junk score is strictly below 0.8; the rows are as many
\* and the columns kept are in their original order.
C8_PrunedIffBelowThreshold ==
    Ok("load_data_from_buffer") =>
        LET sheet == call.sheet
            d == mettool_instance.data
        IN  /\ Len(d.rows) = Len(sheet.rows)
            /\ \A j \in 1..Len(sheet.columns) :
                InSeq(sheet.columns[j], d.columns)
                    <=> \/ sheet.columns[j] = "Date"
                        \/ JunkScoreBelow(Column(sheet, sheet.columns[j]))
            /\ \A a \in 1..Len(d.columns), b \in 1..Len(d.columns) :
                a < b => ColPos(sheet, d.columns[a]) < ColPos(sheet, d.columns[b])

\* C9: select_data reads each literal day-first exactly when that literal
\* holds a '/': it rejects the range exactly when start so read is after
\* end so read, and otherwise selects the rows between the two.
C9_EachLiteralByItsOwnSlash ==
    (/\ call.op = "select_data"
     /\ InSeq(mettool_instance.date_column, mettool_instance.original_data.columns)
     /\ \A j \in 1..Len(call.params.cols) :
            InSeq(call.params.cols[j], mettool_instance.original_data.columns)) =>
        LET start_dt == to_datetime(call.params.start, HasSlash(call.params.start))
            end_dt == to_datetime(call.params.end, HasSlash(call.params.end))
        IN  /\ ret.err = "ValueError" <=> start_dt > end_dt
            /\ ret.err = "" =>
                IdxSet(mettool_instance.data)
                    = RowsWithin(mettool_instance.original_data,
                                 mettool_instance.date_column, start_dt, end_dt)

\* C10: the i-th date run_cusum emits is the date of the i-th row of the
\* working table, the row the i-th CUSUM value sums up to.
C10_DatesAlignedWithCusum ==
    Ok("run_cusum") =>
        LET dates == Column(mettool_instance.data, mettool_instance.date_column)
            out == ret.value.plot_data.dateCol
        IN  /\ Len(out) = Len(dates)
            /\ \A i \in 1..Len(dates) : out[i] = strftime(dates[i][2])

====
